---------------------------- MODULE Spec2Model ----------------------------
(***************************************************************************)
(* zHESSk: a chess half-move validated inside a zero-knowledge pipeline.   *)
(*                                                                         *)
(* Modelled here:                                                          *)
(*   - the SP1 guests  working-sp1-chess/program  and sp1-chess-v2/program *)
(*   - the SP1 hosts   working-sp1-chess/script   and sp1-chess-v2/script  *)
(*   - the library     programs/chess-validator/src/lib.rs                 *)
(*                                                                         *)
(* A u32 is kept as a pair <<hi, lo>> of 16-bit limbs, so that the full    *)
(* 32-bit width (and its overflow) is represented exactly.                 *)
(***************************************************************************)
EXTENDS Integers, Sequences, FiniteSets, TLC

(***************************************************************************)
(* Bounds of the explored inputs.                                          *)
(***************************************************************************)
\* square numbers BoardSize - SquareMargin .. BoardSize + SquareMargin are tried
SquareMargin == 1
\* move numbers 0 .. MaxMoveNumber are tried
MaxMoveNumber == 1
\* move numbers 2^32 - 1 - OverflowMargin .. 2^32 - 1 are tried
OverflowMargin == 1
\* piece codes -MaxPiece .. MaxPiece are tried on the library's board
MaxPiece == 1

(***************************************************************************)
(* Program constants.                                                      *)
(***************************************************************************)
BoardSize == 64
DefaultFrom == 52
DefaultTo == 36
DefaultMoveNumber == 1
U8Limit == 256
Limb == 256 * 256

(***************************************************************************)
(* u32 arithmetic on 16-bit limbs.                                         *)
(***************************************************************************)
U32(hi, lo) == <<hi, lo>>
Hi(x) == x[1]
Lo(x) == x[2]
U32Zero == U32(0, 0)
U32Values == (0 .. Limb - 1) \X (0 .. Limb - 1)

\* `x as u32` for a u8 x
AsU32(b) == U32(0, b)

\* the mathematical sum of two u32, as three limbs <<carry, hi, lo>>
WideAdd(a, b) ==
  LET lo == Lo(a) + Lo(b)
      hi == Hi(a) + Hi(b) + (lo \div Limb)
  IN  <<hi \div Limb, hi % Limb, lo % Limb>>

\* `a + b` on u32: the sum modulo 2^32 and whether it overflowed
U32Add(a, b) ==
  LET w == WideAdd(a, b)
  IN  [overflow |-> w[1] # 0, value |-> U32(w[2], w[3])]

\* `move_number > 0`
U32Positive(x) == Hi(x) > 0 \/ Lo(x) > 0

(***************************************************************************)
(* Text: a sequence of one-character strings.  str::parse for u8 and u32.  *)
(***************************************************************************)
Digits == <<"0", "1", "2", "3", "4", "5", "6", "7", "8", "9">>
IsDigit(c) == \E d \in 1 .. 10 : Digits[d] = c
DigitValue(c) == (CHOOSE d \in 1 .. 10 : Digits[d] = c) - 1

ParseErr == [ok |-> FALSE, value |-> 0]
ParseErr32 == [ok |-> FALSE, value |-> U32Zero]

\* the digits left after an optional leading "+"; a lone sign is an error,
\* and so is a "-" for an unsigned type (it is then no digit)
StripSign(text) ==
  IF Len(text) > 1 /\ text[1] = "+" THEN Tail(text) ELSE text

RECURSIVE ParseU8Digits(_, _, _)
ParseU8Digits(text, i, acc) ==
  IF i > Len(text) THEN [ok |-> TRUE, value |-> acc]
  ELSE IF ~IsDigit(text[i]) THEN ParseErr
  ELSE LET next == acc * 10 + DigitValue(text[i])
       IN  IF next >= U8Limit THEN ParseErr
           ELSE ParseU8Digits(text, i + 1, next)

\* "…".parse::<u8>()
ParseU8(text) ==
  IF Len(text) = 0 THEN ParseErr
  ELSE ParseU8Digits(StripSign(text), 1, 0)

RECURSIVE ParseU32Digits(_, _, _)
ParseU32Digits(text, i, acc) ==
  IF i > Len(text) THEN [ok |-> TRUE, value |-> acc]
  ELSE IF ~IsDigit(text[i]) THEN ParseErr32
  ELSE LET lo == Lo(acc) * 10 + DigitValue(text[i])
           hi == Hi(acc) * 10 + (lo \div Limb)
       IN  IF hi >= Limb THEN ParseErr32
           ELSE ParseU32Digits(text, i + 1, U32(hi, lo % Limb))

\* "…".parse::<u32>()
ParseU32(text) ==
  IF Len(text) = 0 THEN ParseErr32
  ELSE ParseU32Digits(StripSign(text), 1, U32Zero)

\* decimal text of a natural number and of a u32 (to write the tried inputs)
RECURSIVE Decimal(_)
Decimal(n) ==
  IF n < 10 THEN <<Digits[n + 1]>>
  ELSE Append(Decimal(n \div 10), Digits[(n % 10) + 1])

RECURSIVE DecimalU32(_)
DecimalU32(x) ==
  IF Hi(x) = 0 THEN Decimal(Lo(x))
  ELSE LET t == (Hi(x) % 10) * Limb + Lo(x)
       IN  Append(DecimalU32(U32(Hi(x) \div 10, t \div 10)), Digits[(t % 10) + 1])

(***************************************************************************)
(* Wire encoding: bincode, fixed-width little-endian integers, one byte    *)
(* per bool.  Reading returns the value and the position after it.         *)
(***************************************************************************)
EncodeBool(b) == <<IF b THEN 1 ELSE 0>>
EncodeU8(x) == <<x>>
EncodeU32(x) ==
  <<Lo(x) % U8Limit, Lo(x) \div U8Limit, Hi(x) % U8Limit, Hi(x) \div U8Limit>>

ReadBool(bytes, pos) ==
  IF pos > Len(bytes) \/ bytes[pos] \notin {0, 1}
  THEN [ok |-> FALSE, value |-> FALSE, next |-> pos]
  ELSE [ok |-> TRUE, value |-> (bytes[pos] = 1), next |-> pos + 1]

ReadU8(bytes, pos) ==
  IF pos > Len(bytes)
  THEN [ok |-> FALSE, value |-> 0, next |-> pos]
  ELSE [ok |-> TRUE, value |-> bytes[pos], next |-> pos + 1]

ReadU32(bytes, pos) ==
  IF pos + 3 > Len(bytes)
  THEN [ok |-> FALSE, value |-> U32Zero, next |-> pos]
  ELSE [ok |-> TRUE,
        value |-> U32(bytes[pos + 2] + U8Limit * bytes[pos + 3],
                      bytes[pos] + U8Limit * bytes[pos + 1]),
        next |-> pos + 4]

(***************************************************************************)
(* The guests.  A guest reads the stdin entries in order, validates, and   *)
(* commits to the public-values stream.  A guest that panics yields no     *)
(* proof.                                                                  *)
(***************************************************************************)
Programs == {"working-sp1-chess", "sp1-chess-v2"}

IdleGuest ==
  [status |-> "idle", from_square |-> 0, to_square |-> 0,
   move_number |-> U32Zero, is_valid |-> FALSE, checksum |-> U32Zero,
   public_values |-> <<>>]

\* variant: the move number is not checked
WorkingIsValid_NoMoveNumber(from, to, mn) ==
  from < BoardSize /\ to < BoardSize /\ from # to

\* working-sp1-chess/program: is_valid
WorkingIsValid(from, to, mn) ==
  LET is_valid_squares == from < BoardSize /\ to < BoardSize
      is_different_squares == from # to
      is_valid_move_number == U32Positive(mn)
  IN  is_valid_squares /\ is_different_squares /\ is_valid_move_number

\* sp1-chess-v2/program: validate_chess_move(from, to)
V2ValidateChessMove(from, to) ==
  IF from >= BoardSize \/ to >= BoardSize \/ from = to THEN FALSE ELSE TRUE

\* working-sp1-chess/program: from_square as u32 + to_square as u32 + move_number
Checksum(from, to, mn) == U32Add(U32Add(AsU32(from), AsU32(to)).value, mn)

\* variant: to_square is committed before from_square
CommitMove_Swapped(is_valid, from, to, mn) ==
  EncodeBool(is_valid) \o EncodeU8(to) \o EncodeU8(from) \o EncodeU32(mn)

\* the first four commits, common to both guests
CommitMove(is_valid, from, to, mn) ==
  EncodeBool(is_valid) \o EncodeU8(from) \o EncodeU8(to) \o EncodeU32(mn)

\* the three reads, common to both guests
GuestRead(input) ==
  IF Len(input) < 3 THEN [ok |-> FALSE, from |-> 0, to |-> 0, mn |-> U32Zero]
  ELSE LET f == ReadU8(input[1], 1)
           t == ReadU8(input[2], 1)
           m == ReadU32(input[3], 1)
       IN  [ok |-> f.ok /\ t.ok /\ m.ok, from |-> f.value, to |-> t.value,
            mn |-> m.value]

\* working-sp1-chess/program main; overflow_checks is the build's setting
WorkingGuestMain(input, checks) ==
  LET r == GuestRead(input)
      is_valid == WorkingIsValid(r.from, r.to, r.mn)
      sum == Checksum(r.from, r.to, r.mn)
      committed == CommitMove(is_valid, r.from, r.to, r.mn)
  IN  IF ~r.ok THEN [IdleGuest EXCEPT !.status = "panicked"]
      ELSE IF sum.overflow /\ checks
      THEN [status |-> "panicked", from_square |-> r.from, to_square |-> r.to,
            move_number |-> r.mn, is_valid |-> is_valid, checksum |-> U32Zero,
            public_values |-> committed]
      ELSE [status |-> "done", from_square |-> r.from, to_square |-> r.to,
            move_number |-> r.mn, is_valid |-> is_valid, checksum |-> sum.value,
            public_values |-> committed \o EncodeU32(sum.value)]

\* sp1-chess-v2/program main
V2GuestMain(input) ==
  LET r == GuestRead(input)
      is_valid_move == V2ValidateChessMove(r.from, r.to)
  IN  IF ~r.ok THEN [IdleGuest EXCEPT !.status = "panicked"]
      ELSE [status |-> "done", from_square |-> r.from, to_square |-> r.to,
            move_number |-> r.mn, is_valid |-> is_valid_move,
            checksum |-> U32Zero,
            public_values |-> CommitMove(is_valid_move, r.from, r.to, r.mn)]

GuestMain(prog, input, checks) ==
  IF prog = "working-sp1-chess" THEN WorkingGuestMain(input, checks)
  ELSE V2GuestMain(input)

(***************************************************************************)
(* The library validator, programs/chess-validator/src/lib.rs.             *)
(***************************************************************************)
Squares == 0 .. BoardSize - 1

\* variant: the squares are not checked against the board
basic_move_validation_unbounded(input) == input.move_from # input.move_to

\* variant: square 64 is accepted
basic_move_validation_inclusive(input) ==
  input.move_from <= BoardSize /\ input.move_to <= BoardSize
    /\ input.move_from # input.move_to

\* fn basic_move_validation
basic_move_validation(input) ==
  input.move_from < BoardSize /\ input.move_to < BoardSize
    /\ input.move_from # input.move_to

\* variant: the piece is copied, the source square is not cleared
apply_move_keep_source(input) ==
  IF input.move_from \notin Squares \/ input.move_to \notin Squares
  THEN [panicked |-> TRUE, board |-> input.board_state]
  ELSE [panicked |-> FALSE,
        board |-> [input.board_state EXCEPT
                     ![input.move_to] = input.board_state[input.move_from]]]

\* fn apply_move; indexing the board outside 0..63 panics
apply_move(input) ==
  IF input.move_from \notin Squares \/ input.move_to \notin Squares
  THEN [panicked |-> TRUE, board |-> input.board_state]
  ELSE LET piece == input.board_state[input.move_from]
           cleared == [input.board_state EXCEPT ![input.move_from] = 0]
       IN  [panicked |-> FALSE,
            board |-> [cleared EXCEPT ![input.move_to] = piece]]

\* fn validate_chess_move
validate_chess_move(input) ==
  LET is_valid == basic_move_validation(input)
      moved == IF is_valid THEN apply_move(input)
               ELSE [panicked |-> FALSE, board |-> input.board_state]
  IN  [status |-> IF moved.panicked THEN "panicked" ELSE "returned",
       is_valid |-> is_valid, new_board_state |-> moved.board,
       game_status |-> 0]

(***************************************************************************)
(* State.                                                                  *)
(***************************************************************************)
VARIABLES
  pc,              \* position of the host's main, or of the library call
  program,         \* which host/guest pair runs
  overflow_checks, \* whether the guest build traps on integer overflow
  env,             \* FROM_SQUARE, TO_SQUARE, MOVE_NUMBER of the environment
  from_square,     \* host locals
  to_square,
  move_number,
  stdin,           \* SP1Stdin: the entries written so far
  calls,           \* the backend calls made so far, with their outcome
  guest,           \* the guest execution inside prove
  proof,           \* the proof returned by prove
  decoded,         \* what the host read from proof.public_values
  out,             \* the lines printed so far
  lib_input,       \* the ChessMoveInput given to validate_chess_move
  lib_output       \* what validate_chess_move returned

vars == <<pc, program, overflow_checks, env, from_square, to_square,
          move_number, stdin, calls, guest, proof, decoded, out, lib_input,
          lib_output>>

hostVars == <<program, overflow_checks, env, from_square, to_square,
              move_number, stdin, calls, guest, proof, decoded, out>>
libVars == <<lib_input, lib_output>>

(***************************************************************************)
(* The inputs tried.                                                       *)
(***************************************************************************)
Unset == [set |-> FALSE, text |-> <<>>]
Set(text) == [set |-> TRUE, text |-> text]

SquareNumbers ==
  ((BoardSize - SquareMargin) .. (BoardSize + SquareMargin)) \cup {0, 8, 10}

SquareTexts ==
  {Decimal(n) : n \in SquareNumbers}
    \cup {<<"2", "5", "6">>, <<"x">>, <<"+", "8">>}

MoveTexts ==
  {DecimalU32(U32(0, n)) : n \in 0 .. MaxMoveNumber}
    \cup {DecimalU32(U32(Limb - 1, Limb - 1 - k)) : k \in 0 .. OverflowMargin}
    \cup {<<"5">>, <<"-", "1">>,
          <<"4", "2", "9", "4", "9", "6", "7", "2", "9", "6">>}

Environments ==
  [FROM_SQUARE : {Unset} \cup {Set(t) : t \in SquareTexts},
   TO_SQUARE : {Unset} \cup {Set(t) : t \in SquareTexts},
   MOVE_NUMBER : {Unset} \cup {Set(t) : t \in MoveTexts}]

NoEnvironment ==
  [FROM_SQUARE |-> Unset, TO_SQUARE |-> Unset, MOVE_NUMBER |-> Unset]

PieceCodes == (-MaxPiece .. MaxPiece) \cup {5}

Boards ==
  {[sq \in Squares |-> IF sq = 0 THEN p ELSE IF sq = 8 THEN q ELSE 0] :
     p \in PieceCodes, q \in PieceCodes}

LibInputs ==
  [board_state : Boards,
   move_from : SquareNumbers \cup {U8Limit - 1},
   move_to : SquareNumbers \cup {U8Limit - 1},
   move_number : {U32(0, n) : n \in 0 .. MaxMoveNumber},
   player_turn : {0, 1}]

NoLibInput ==
  [board_state |-> [sq \in Squares |-> 0], move_from |-> 0, move_to |-> 0,
   move_number |-> U32Zero, player_turn |-> 0]

NoLibOutput ==
  [status |-> "none", is_valid |-> FALSE,
   new_board_state |-> [sq \in Squares |-> 0], game_status |-> 0]

NoProof == [made |-> FALSE, compressed |-> FALSE, public_values |-> <<>>]

NotDecoded ==
  [done |-> FALSE, is_valid |-> FALSE, from_verified |-> 0, to_verified |-> 0,
   move_num_verified |-> U32Zero, checksum |-> U32Zero]

(***************************************************************************)
(* Host helpers.                                                           *)
(***************************************************************************)
\* env::var(name).unwrap_or(default)
VarOr(v, default) == IF v.set THEN v.text ELSE default

\* env::var(..).unwrap_or("52".to_string()).parse().unwrap_or(52), as u8
ResolveU8(v, default) ==
  LET r == ParseU8(VarOr(v, Decimal(default)))
  IN  IF r.ok THEN r.value ELSE default

\* the same, as u32
ResolveU32(v, default) ==
  LET r == ParseU32(VarOr(v, Decimal(default)))
  IN  IF r.ok THEN r.value ELSE U32(0, default)

\* stdin.write(&from_square); stdin.write(&to_square); stdin.write(&move_number)
HostStdin(from, to, mn) == <<EncodeU8(from), EncodeU8(to), EncodeU32(mn)>>

\* .expect("... proof generation failed")
AfterProve(ok) == IF ok THEN "proved" ELSE "panicked"

\* variant: the result of verify is dropped
AfterVerify_Ignored(ok) == "verified"

\* .expect("... proof verification failed")
AfterVerify(ok) == IF ok THEN "verified" ELSE "panicked"

\* proof.public_values.read::<bool>() ... read::<u32>(), in the host's order
ReadPublicValues(bytes) ==
  LET v == ReadBool(bytes, 1)
      f == ReadU8(bytes, v.next)
      t == ReadU8(bytes, f.next)
      m == ReadU32(bytes, t.next)
      c == ReadU32(bytes, m.next)
  IN  [done |-> v.ok /\ f.ok /\ t.ok /\ m.ok /\ c.ok, is_valid |-> v.value,
       from_verified |-> f.value, to_verified |-> t.value,
       move_num_verified |-> m.value, checksum |-> c.value]

\* "{}" of a bool
BoolText(b) == IF b THEN "true" ELSE "false"

Log(text) == [key |-> "log", value |-> text]
Line(key, value) == [key |-> key, value |-> value]

\* what the working-sp1-chess host prints as PROOF_VERIFIED
WorkingVerifiedValue(d) == BoolText(d.is_valid)

\* the lines after verification: working-sp1-chess/script 72-84,
\* sp1-chess-v2/script 61-63
ReportLines(prog, d) ==
  IF prog = "working-sp1-chess"
  THEN <<Log("Chess move validation results"),
         Line("PROOF_RESULT", "SUCCESS"),
         Line("PROOF_SIZE", "proof.bytes().len()"),
         Line("PROOF_TIME", "duration.as_millis()"),
         Line("PROOF_VERIFIED", WorkingVerifiedValue(d)),
         Line("VERIFY_TIME", "verify_duration.as_millis()")>>
  ELSE <<Line("PROOF_SIZE", "proof.bytes().len()"),
         Line("PROOF_TIME", "duration.as_millis()"),
         Line("PROOF_VERIFIED", "true")>>

Call(op, ok) == [op |-> op, ok |-> ok]

(***************************************************************************)
(* Initial states: a host run about to start, or a library call about to   *)
(* be made.                                                                *)
(***************************************************************************)
InitHost ==
  /\ pc = "start"
  /\ program \in Programs
  /\ overflow_checks \in BOOLEAN
  /\ env \in Environments
  /\ from_square = 0
  /\ to_square = 0
  /\ move_number = U32Zero
  /\ stdin = <<>>
  /\ calls = <<>>
  /\ guest = IdleGuest
  /\ proof = NoProof
  /\ decoded = NotDecoded
  /\ out = <<>>
  /\ lib_input = NoLibInput
  /\ lib_output = NoLibOutput

InitLib ==
  /\ pc = "lib_call"
  /\ program = "chess-validator"
  /\ overflow_checks = FALSE
  /\ env = NoEnvironment
  /\ from_square = 0
  /\ to_square = 0
  /\ move_number = U32Zero
  /\ stdin = <<>>
  /\ calls = <<>>
  /\ guest = IdleGuest
  /\ proof = NoProof
  /\ decoded = NotDecoded
  /\ out = <<>>
  /\ lib_input \in LibInputs
  /\ lib_output = NoLibOutput

Init == InitHost \/ InitLib

(***************************************************************************)
(* The host's main, step by step.                                          *)
(***************************************************************************)
\* script main 8-26: the environment is read and parsed, defaults applied
ResolveInput ==
  /\ pc = "start"
  /\ from_square' = ResolveU8(env.FROM_SQUARE, DefaultFrom)
  /\ to_square' = ResolveU8(env.TO_SQUARE, DefaultTo)
  /\ move_number' = ResolveU32(env.MOVE_NUMBER, DefaultMoveNumber)
  /\ out' = out \o <<Log("Generating proof"), Log("Chess move")>>
  /\ pc' = "resolved"
  /\ UNCHANGED <<program, overflow_checks, env, stdin, calls, guest, proof,
                 decoded, libVars>>

\* script main 29-32
WriteStdin ==
  /\ pc = "resolved"
  /\ stdin' = HostStdin(from_square, to_square, move_number)
  /\ pc' = "prepared"
  /\ UNCHANGED <<program, overflow_checks, env, from_square, to_square,
                 move_number, calls, guest, proof, decoded, out, libVars>>

\* script main 35-38: client.setup(ELF)
Setup ==
  /\ pc = "prepared"
  /\ calls' = Append(calls, Call("setup", TRUE))
  /\ out' = Append(out, Log("Setting up proving keys"))
  /\ pc' = "keys_ready"
  /\ UNCHANGED <<program, overflow_checks, env, from_square, to_square,
                 move_number, stdin, guest, proof, decoded, libVars>>

\* script main 40-44: client.prove(&pk, &stdin) is entered
Prove ==
  /\ pc = "keys_ready"
  /\ out' = Append(out, Log("Generating proof"))
  /\ pc' = "proving"
  /\ UNCHANGED <<program, overflow_checks, env, from_square, to_square,
                 move_number, stdin, calls, guest, proof, decoded, libVars>>

\* the prover executes the guest's main on the stdin it was given
GuestRun ==
  /\ pc = "proving"
  /\ guest.status = "idle"
  /\ guest' = GuestMain(program, stdin, overflow_checks)
  /\ UNCHANGED <<pc, program, overflow_checks, env, from_square, to_square,
                 move_number, stdin, calls, proof, decoded, out, libVars>>

\* script main 44-53: run() returns; Err when the guest panicked or the
\* backend could not produce the proof
ProveReturn ==
  /\ pc = "proving"
  /\ guest.status # "idle"
  /\ \E backend_ok \in BOOLEAN :
       LET ok == backend_ok /\ guest.status = "done"
       IN  /\ calls' = Append(calls, Call("prove", ok))
           /\ proof' = IF ok
                       THEN [made |-> TRUE,
                             compressed |-> (program = "working-sp1-chess"),
                             public_values |-> guest.public_values]
                       ELSE proof
           /\ out' = IF ok
                     THEN out \o <<Log("proof generated"), Log("Proof time"),
                                   Log("Proof size")>>
                     ELSE out
           /\ pc' = AfterProve(ok)
  /\ UNCHANGED <<program, overflow_checks, env, from_square, to_square,
                 move_number, stdin, guest, decoded, libVars>>

\* script main 55-63: client.verify(&proof, &vk)
Verify ==
  /\ pc = "proved"
  /\ \E ok \in BOOLEAN :
       /\ calls' = Append(calls, Call("verify", ok))
       /\ pc' = AfterVerify(ok)
       /\ out' = IF pc' = "verified"
                 THEN out \o <<Log("Verifying proof"), Log("Proof verified")>>
                 ELSE Append(out, Log("Verifying proof"))
  /\ UNCHANGED <<program, overflow_checks, env, from_square, to_square,
                 move_number, stdin, guest, proof, decoded, libVars>>

\* working-sp1-chess/script main 66-70
ReadOutputs ==
  /\ pc = "verified"
  /\ program = "working-sp1-chess"
  /\ decoded' = ReadPublicValues(proof.public_values)
  /\ pc' = IF decoded'.done THEN "decoded" ELSE "panicked"
  /\ UNCHANGED <<program, overflow_checks, env, from_square, to_square,
                 move_number, stdin, calls, guest, proof, out, libVars>>

\* working-sp1-chess/script main 72-84, sp1-chess-v2/script main 60-63
Report ==
  /\ \/ pc = "decoded" /\ program = "working-sp1-chess"
     \/ pc = "verified" /\ program = "sp1-chess-v2"
  /\ out' = out \o ReportLines(program, decoded)
  /\ pc' = "reported"
  /\ UNCHANGED <<program, overflow_checks, env, from_square, to_square,
                 move_number, stdin, calls, guest, proof, decoded, libVars>>

(***************************************************************************)
(* The library call.                                                       *)
(***************************************************************************)
ValidateChessMove ==
  /\ pc = "lib_call"
  /\ lib_output' = validate_chess_move(lib_input)
  /\ pc' = "lib_returned"
  /\ UNCHANGED <<hostVars, lib_input>>

Next ==
  \/ ResolveInput
  \/ WriteStdin
  \/ Setup
  \/ Prove
  \/ GuestRun
  \/ ProveReturn
  \/ Verify
  \/ ReadOutputs
  \/ Report
  \/ ValidateChessMove

Spec == Init /\ [][Next]_vars

(***************************************************************************)
(* Properties.                                                             *)
(***************************************************************************)
\* the validation predicate as the specification states it
MoveValid(from, to, mn) ==
  from < 64 /\ to < 64 /\ from # to /\ mn # <<0, 0>>

\* from + to + move_number as an integer, in three 16-bit limbs
ExactSum(from, to, mn) ==
  LET lo == from + to + mn[2]
      hi == mn[1] + (lo \div 65536)
  IN  <<hi \div 65536, hi % 65536, lo % 65536>>

ResultKeys ==
  {"PROOF_RESULT", "PROOF_SIZE", "PROOF_TIME", "PROOF_VERIFIED", "VERIFY_TIME"}
HasResultLine == \E i \in 1 .. Len(out) : out[i].key \in ResultKeys
Called(op) == \E i \in 1 .. Len(calls) : calls[i].op = op
Failed(op) == \E i \in 1 .. Len(calls) : calls[i] = Call(op, FALSE)
WorkingGuestRan == program = "working-sp1-chess" /\ guest.status # "idle"

\* C1: in the working-sp1-chess guest the committed is_valid is true exactly
\* when from < 64, to < 64, from # to and move_number >= 1
C1_WorkingIsValid ==
  WorkingGuestRan =>
    LET committed == ReadBool(guest.public_values, 1)
    IN  /\ committed.ok
        /\ committed.value = MoveValid(from_square, to_square, move_number)

C1_Witness ==
  /\ WorkingGuestRan
  /\ from_square = 52 /\ to_square = 36 /\ move_number = <<0, 1>>
  /\ guest.public_values[1] = 1

\* C2: every validator that receives a move_number yields is_valid = false
\* when move_number = 0, whatever the squares are
C2_ZeroMoveNumberInvalid ==
  /\ (guest.status = "done" /\ move_number = <<0, 0>>)
       => ~ReadBool(guest.public_values, 1).value
  /\ (lib_output.status = "returned" /\ lib_input.move_number = <<0, 0>>)
       => ~lib_output.is_valid

\* C3: in the working-sp1-chess guest, for squares in [0,64) and any positive
\* u32 move_number, the committed checksum is the exact integer sum
\* from + to + move_number: no wrap-around and no abort
C3_ChecksumExact ==
  (/\ WorkingGuestRan
   /\ from_square < 64 /\ to_square < 64 /\ move_number # <<0, 0>>)
    => LET committed == ReadU32(guest.public_values, 8)
       IN  /\ guest.status = "done"
           /\ committed.ok
           /\ <<0, committed.value[1], committed.value[2]>>
                = ExactSum(from_square, to_square, move_number)

\* C4: result lines are printed and public values read only after setup,
\* prove and verify succeeded in that order; a failed prove is never followed
\* by verify; a failed prove or verify ends the run with no result line
C4_ResultsOnlyAfterVerified ==
  /\ (HasResultLine \/ decoded.done)
       => calls = <<Call("setup", TRUE), Call("prove", TRUE),
                    Call("verify", TRUE)>>
  /\ Failed("prove") => ~Called("verify")
  /\ (Failed("prove") \/ Failed("verify"))
       => ~HasResultLine /\ ~decoded.done /\ ~ENABLED Next

C4_Witness ==
  /\ pc = "reported"
  /\ HasResultLine
  /\ calls = <<Call("setup", TRUE), Call("prove", TRUE), Call("verify", TRUE)>>

\* C5: the guest reads what the host wrote, field by field, and the host
\* decodes what the guest committed, field by field
C5_RoundTrip ==
  /\ WorkingGuestRan =>
       /\ guest.from_square = from_square
       /\ guest.to_square = to_square
       /\ guest.move_number = move_number
  /\ (program = "working-sp1-chess" /\ decoded.done) =>
       /\ decoded.from_verified = from_square
       /\ decoded.to_verified = to_square
       /\ decoded.move_num_verified = move_number
       /\ decoded.is_valid = guest.is_valid
       /\ decoded.is_valid = MoveValid(from_square, to_square, move_number)
       /\ decoded.checksum = guest.checksum

C5_Witness ==
  /\ program = "working-sp1-chess"
  /\ decoded.done
  /\ decoded.is_valid
  /\ decoded.from_verified = 63 /\ decoded.to_verified = 8
  /\ decoded.move_num_verified = <<0, 5>>
  /\ decoded.checksum = <<0, 76>>

\* C6: validate_chess_move returns for every input, also with squares >= 64
\* or equal squares, and an invalid move leaves the board as it was
C6_AlwaysReturns ==
  pc = "lib_returned" =>
    /\ lib_output.status = "returned"
    /\ ~lib_output.is_valid
         => lib_output.new_board_state = lib_input.board_state

C6_Witness ==
  /\ pc = "lib_returned"
  /\ lib_input.move_from = 64 /\ lib_input.move_to = 0
  /\ lib_input.board_state[0] = 5
  /\ lib_output.status = "returned"
  /\ ~lib_output.is_valid
  /\ lib_output.new_board_state[0] = 5

\* C7: a valid move puts the piece of move_from on move_to, clears move_from
\* and leaves every other square; the input board is never modified
C7_BoardUpdate ==
  /\ [](  (pc = "lib_returned" /\ lib_output.is_valid)
        => /\ lib_output.status = "returned"
           /\ lib_output.new_board_state[lib_input.move_to]
                = lib_input.board_state[lib_input.move_from]
           /\ lib_output.new_board_state[lib_input.move_from] = 0
           /\ \A sq \in 0 .. 63 :
                sq \notin {lib_input.move_from, lib_input.move_to}
                  => lib_output.new_board_state[sq] = lib_input.board_state[sq])
  /\ [][lib_input' = lib_input]_vars

C7_Witness ==
  /\ pc = "lib_returned"
  /\ lib_input.board_state[0] = 5 /\ lib_input.board_state[8] = 0
  /\ lib_input.move_from = 0 /\ lib_input.move_to = 8
  /\ lib_output.is_valid
  /\ lib_output.new_board_state[0] = 0 /\ lib_output.new_board_state[8] = 5

\* C8: before setup the configured values are a valid MoveInput or the
\* defaults; setup is never called with an out-of-range square or a move
\* number of 0
C8_InvalidInputBeforeSetup ==
  Called("setup") => MoveValid(from_square, to_square, move_number)

C10_VerifiedIsVerification ==
  pc = "reported" =>
    \E i \in 1 .. Len(out) :
      /\ out[i].key = "PROOF_VERIFIED"
      /\ out[i].value = (IF Failed("verify") \/ ~Called("verify")
                         THEN "false" ELSE "true")

=============================================================================
